---- MODULE Spec2Model ----
(***************************************************************************)
(* A model of src/main.py: the two FastAPI handlers evaluate and           *)
(* get_user_history, the article fetcher get_qiita_article, the            *)
(* evaluation service evaluate_article_with_openai, and the SQLite table   *)
(* evaluations they share.                                                 *)
(*                                                                         *)
(* Text is a sequence of one-character strings.  The character "T" stands  *)
(* for the score-unit suffix U+70B9 of the regular expression at line 140. *)
(* None stands for Python's None / SQL NULL in an integer column.          *)
(***************************************************************************)
EXTENDS Integers, Sequences, FiniteSets, TLC

VARIABLES
    store,      \* committed rows of table evaluations, in insertion order
    writer,     \* the request holding SQLite's write transaction, 0 if none
    pending,    \* rows inserted by writer and not yet committed
    clock,      \* CURRENT_TIMESTAMP as last read, in whole seconds
    req,        \* per worker thread: the evaluate request it is serving, and where
    out,        \* the response the last step sent, if it sent one
    nreq,       \* evaluate requests dispatched so far
    succ,       \* per user: evaluate calls that returned the success payload
    llm,        \* the texts the chat-completion API may answer with
    api,        \* the ways the content API may answer
    budget      \* evaluate requests still to come

vars == <<store, writer, pending, clock, req, out, nreq, succ, llm, api, budget>>

(***************************************************************************)
(* Bounds of the model.                                                    *)
(***************************************************************************)
NumProcs == 2
MaxEvaluations == 2
MaxClock == 1
MaxTextLen == 5

Procs == 1..NumProcs
Users == {"u1", "u2"}
ArticleIds == {"a1"}

(***************************************************************************)
(* Text.                                                                   *)
(***************************************************************************)
ScoreSuffix == "T"
Digits == {"0", "5", "8"}
Whitespace == {" ", "\n"}
Alphabet == Digits \cup Whitespace \cup {ScoreSuffix}
None == -1
ReviewDigestLen == 100

DigitVal(c) == CASE c = "0" -> 0 [] c = "5" -> 5 [] c = "8" -> 8 [] OTHER -> 0

Texts(n) == UNION {[1..k -> Alphabet] : k \in 0..n}

Drop(s, k) == SubSeq(s, k + 1, Len(s))

Take(s, k) == SubSeq(s, 1, IF k < Len(s) THEN k ELSE Len(s))

\* str.replace("\n", " ")
ReplaceNewlines(s) == [i \in 1..Len(s) |-> IF s[i] = "\n" THEN " " ELSE s[i]]

\* the characters of s[lo..hi] whose positions are in keep, in order
RECURSIVE KeepAt(_, _, _, _)
KeepAt(s, keep, lo, hi) ==
    IF lo > hi THEN <<>>
    ELSE IF lo = hi THEN (IF lo \in keep THEN <<s[lo]>> ELSE <<>>)
    ELSE LET mid == (lo + hi) \div 2
         IN  KeepAt(s, keep, lo, mid) \o KeepAt(s, keep, mid + 1, hi)

\* offset of the space at position i within its maximal run of spaces
RunOffset(s, i) ==
    i - (CHOOSE j \in 1..i :
            /\ \A k \in j..i : s[k] = " "
            /\ j = 1 \/ s[j - 1] # " ")

\* str.replace("  ", " "): one left-to-right pass over non-overlapping pairs.
\* The pass pairs the spaces of each run from the run's start and keeps one
\* space of each pair, so the spaces at odd offsets of a run are the ones dropped.
ReplaceDoubleSpaces(s) ==
    LET keep == {i \in 1..Len(s) : s[i] # " " \/ RunOffset(s, i) % 2 = 0}
    IN  KeepAt(s, keep, 1, Len(s))

RECURSIVE LStrip(_)
LStrip(s) == IF Len(s) > 0 /\ s[1] \in Whitespace THEN LStrip(Drop(s, 1)) ELSE s

RECURSIVE RStrip(_)
RStrip(s) ==
    IF Len(s) > 0 /\ s[Len(s)] \in Whitespace
    THEN RStrip(SubSeq(s, 1, Len(s) - 1)) ELSE s

\* str.strip()
Strip(s) == RStrip(LStrip(s))

\* cleaned_result at line 115
Clean(result) == Strip(ReplaceDoubleSpaces(ReplaceNewlines(result)))

\* int(match.group(1))
RECURSIVE ToInt(_)
ToInt(ds) ==
    IF Len(ds) = 0 THEN 0
    ELSE 10 * ToInt(SubSeq(ds, 1, Len(ds) - 1)) + DigitVal(ds[Len(ds)])

\* (\d{1,3})<suffix> matched at position i with k digits
MatchesAt(s, i, k) ==
    /\ i + k <= Len(s)
    /\ \A j \in i..(i + k - 1) : s[j] \in Digits
    /\ s[i + k] = ScoreSuffix

\* the greedy quantifier tries 3 digits, then 2, then 1
GroupLenAt(s, i) ==
    IF MatchesAt(s, i, 3) THEN 3
    ELSE IF MatchesAt(s, i, 2) THEN 2
    ELSE IF MatchesAt(s, i, 1) THEN 1
    ELSE 0

\* the search as it would be if it kept the last match, not the first
SearchScoreLast(s) ==
    LET hits == {i \in 1..Len(s) : GroupLenAt(s, i) > 0}
    IN  IF hits = {} THEN None
        ELSE LET i == CHOOSE h \in hits : \A g \in hits : h >= g
             IN  ToInt(SubSeq(s, i, i + GroupLenAt(s, i) - 1))

\* re.search: the leftmost position at which the pattern matches
SearchScore(s) ==
    LET hits == {i \in 1..Len(s) : GroupLenAt(s, i) > 0}
    IN  IF hits = {} THEN None
        ELSE LET i == CHOOSE h \in hits : \A g \in hits : h <= g
             IN  ToInt(SubSeq(s, i, i + GroupLenAt(s, i) - 1))

(***************************************************************************)
(* The content API and get_qiita_article.                                  *)
(***************************************************************************)
NoJson == [shape |-> "none", id |-> "", title |-> ""]
InvalidJson == [shape |-> "invalid", id |-> "", title |-> ""]
EmptyJson == [shape |-> "empty", id |-> "", title |-> ""]
ListJson == [shape |-> "list", id |-> "", title |-> ""]
\* the error object a 404 carries: a JSON object with none of an article's fields
NotFoundJson == [shape |-> "dict", id |-> "", title |-> ""]
ArticleJson(article_id) == [shape |-> "dict", id |-> article_id, title |-> article_id]

\* what requests.get can do: raise, or hand back a status and a body
ContentAPI(article_id) ==
    { [outcome |-> "ConnectionError", status |-> 0, body |-> NoJson],
      [outcome |-> "response", status |-> 404, body |-> NotFoundJson],
      [outcome |-> "response", status |-> 200, body |-> InvalidJson],
      [outcome |-> "response", status |-> 200, body |-> EmptyJson],
      [outcome |-> "response", status |-> 200, body |-> ListJson],
      [outcome |-> "response", status |-> 200, body |-> ArticleJson(article_id)] }

Returned(v) == [raised |-> "", value |-> v]
Raised(e) == [raised |-> e, value |-> NoJson]

\* the fetcher as it would be without the status check of line 45
get_qiita_article_unchecked(response) ==
    IF response.outcome # "response" THEN Raised(response.outcome)
    ELSE IF response.body.shape = "invalid" THEN Raised("JSONDecodeError")
    ELSE Returned(response.body)

\* the fetcher as it would be if it caught its own failures and returned None
get_qiita_article_catching(response) ==
    IF response.outcome # "response" THEN Returned(NoJson)
    ELSE IF response.status # 200 THEN Returned(NoJson)
    ELSE IF response.body.shape = "invalid" THEN Returned(NoJson)
    ELSE Returned(response.body)

get_qiita_article(response) ==
    IF response.outcome # "response" THEN Raised(response.outcome)
    ELSE IF response.status # 200 THEN Returned(NoJson)
    ELSE IF response.body.shape = "invalid" THEN Raised("JSONDecodeError")
    ELSE Returned(response.body)

\* Python truth value of the fetched article: None and {} are false
Truthy(article) == article.shape \in {"list", "dict"}

(***************************************************************************)
(* The evaluation service.                                                 *)
(***************************************************************************)
FirstEvaluation == [first |-> TRUE, entries |-> <<>>]

\* lines 59-65: the digest of past (score, review) pairs
HistoryPrompt(past_reviews) ==
    LET n == Len(past_reviews)
    IN  IF n = 0 THEN FirstEvaluation
        ELSE [first |-> FALSE,
              entries |-> [i \in 1..n |->
                  [idx |-> i,
                   score |-> past_reviews[n + 1 - i][1],
                   summary |-> Take(past_reviews[n + 1 - i][2], ReviewDigestLen)]]]

\* a reply with a score and a run of newlines
ScoredReply == <<"8", "5", "T", "\n", "\n", "\n", "0">>

\* a reply with no score in it
PlainReply == <<" ", "8", " ", "T", "\n">>

Replies == {ScoredReply, PlainReply}

(***************************************************************************)
(* The table evaluations.                                                  *)
(***************************************************************************)
RowsOf(rows, user) == {i \in 1..Len(rows) : rows[i].user = user}

Injective(f) == \A i, j \in DOMAIN f : i # j => f[i] # f[j]

AscendingBy(rows, f) ==
    \A i, j \in DOMAIN f : i < j => rows[f[i]].created_at <= rows[f[j]].created_at

DescendingBy(rows, f) ==
    \A i, j \in DOMAIN f : i < j => rows[f[i]].created_at >= rows[f[j]].created_at

\* SELECT ... WHERE user = ? ORDER BY created_at: every order of the user's
\* rows SQLite may return; rows with equal created_at come in any order
SelectAscending(rows, user) ==
    LET idx == RowsOf(rows, user)
    IN  {f \in [1..Cardinality(idx) -> idx] : Injective(f) /\ AscendingBy(rows, f)}

\* SELECT ... WHERE user = ? ORDER BY created_at DESC
SelectDescending(rows, user) ==
    LET idx == RowsOf(rows, user)
    IN  {f \in [1..Cardinality(idx) -> idx] : Injective(f) /\ DescendingBy(rows, f)}

\* a read that would also see the writer's uncommitted rows
VisibleWithUncommitted == store \o pending

\* what a connection other than the writer's reads: committed rows only
Visible == store

\* INSERT INTO evaluations ...: id from AUTOINCREMENT, created_at from the default
NewRow(r, now) ==
    [id |-> Len(store) + 1, user |-> r.user, article_id |-> r.article.id,
     title |-> r.article.title, score |-> r.score, review |-> r.evaluation,
     created_at |-> now, by |-> r.rid]

(***************************************************************************)
(* Requests.                                                               *)
(***************************************************************************)
NoResult == [kind |-> "none"]
ErrNotFound == "article-not-found"
ErrUnexpected == "unexpected-error"
ErrHistory == "history-error"

ErrorPayload(msg) == [kind |-> "error", error |-> msg]
SuccessPayload(r) ==
    [kind |-> "success", user |-> r.user, score |-> r.score, review |-> r.evaluation]
HistoryRecord(row) ==
    [article_id |-> row.article_id, title |-> row.title, score |-> row.score,
     created_at |-> row.created_at]
HistoryPayload(user, rows) ==
    [kind |-> "history", user |-> user,
     history |-> [i \in 1..Len(rows) |-> HistoryRecord(rows[i])]]

\* an except clause that would hand the exception's text to the caller
LeakException(e) == ErrorPayload(e)

\* the except clauses at lines 154-156 and 173-175: e is printed, not returned
OnEvaluateException(e) == ErrorPayload(ErrUnexpected)
OnHistoryException(e) == ErrorPayload(ErrHistory)

\* a worker thread between requests
Idle ==
    [pc |-> "idle", rid |-> 0, user |-> "", article_id |-> "", past_reviews |-> <<>>,
     read |-> <<>>, article |-> NoJson, history_prompt |-> FirstEvaluation,
     answer |-> "", raw |-> <<>>, evaluation |-> <<>>, score |-> None]

\* no response sent
Quiet ==
    [handler |-> "none", rid |-> 0, user |-> "", answer |-> "", exc |-> "",
     raw |-> <<>>, read |-> <<>>, result |-> NoResult]

\* evaluate returns result, for request r, after the content API answered
\* with answer and exception exc (if any) was caught
Sent(r, answer, exc, result) ==
    [Quiet EXCEPT !.handler = "evaluate", !.rid = r.rid, !.user = r.user,
                  !.answer = answer, !.exc = exc, !.raw = r.raw, !.read = r.read,
                  !.result = result]

\* rid numbers the evaluate requests in the order they arrive
Dispatched(user, article_id) ==
    [Idle EXCEPT !.rid = nreq + 1, !.user = user, !.article_id = article_id]

\* the history evaluate reads: the rows in the order f, as (score, review) pairs
WithHistory(r, rows, f) ==
    [r EXCEPT !.pc = "fetch", !.read = [i \in DOMAIN f |-> rows[f[i]].id],
              !.past_reviews = [i \in DOMAIN f |-> <<rows[f[i]].score, rows[f[i]].review>>]]

\* GET /evaluate/{article_id}?user=...: lines 123-129, connect and read the
\* history. The worker threads are alike: the request goes to the first free one.
EvalBegin(p, user, article_id) ==
    /\ req[p].pc = "idle"
    /\ \A q \in Procs : req[q].pc = "idle" => p <= q
    /\ budget > 0
    /\ budget' = budget - 1
    /\ nreq' = nreq + 1
    /\ \/ \E f \in SelectAscending(Visible, user) :
             /\ req' = [req EXCEPT ![p] = WithHistory(Dispatched(user, article_id), Visible, f)]
             /\ out' = Quiet
       \/ /\ out' = Sent(Dispatched(user, article_id), "", "OperationalError:select",
                         OnEvaluateException("OperationalError:select"))
          /\ req' = req
    /\ UNCHANGED <<store, writer, pending, clock, succ, llm, api>>

\* how the content API answered, for the record
Answer(response) ==
    IF response.outcome # "response" THEN response.outcome
    ELSE IF response.status # 200 THEN "non200"
    ELSE response.body.shape

Answers == {Answer(response) : response \in ContentAPI("")}

\* lines 137-141 for a fetched article: evaluate_article_with_openai, then the score
Evaluated(r, answer, article, raw) ==
    [r EXCEPT !.pc = "insert",
              !.answer = answer,
              !.article = article,
              !.history_prompt = HistoryPrompt(r.past_reviews),
              !.raw = raw,
              !.evaluation = Clean(raw),
              !.score = SearchScore(Clean(raw))]

\* lines 132-142: fetch the article, have it evaluated, extract the score
EvalCall(p) ==
    /\ req[p].pc = "fetch"
    /\ \E response \in {a \in ContentAPI(req[p].article_id) : Answer(a) \in api} :
          LET got == get_qiita_article(response)
              answer == Answer(response)
          IN  IF got.raised # ""
              THEN /\ out' = Sent(req[p], answer, got.raised, OnEvaluateException(got.raised))
                   /\ req' = [req EXCEPT ![p] = Idle]
              ELSE IF ~Truthy(got.value)
              THEN /\ out' = Sent(req[p], answer, "", ErrorPayload(ErrNotFound))
                   /\ req' = [req EXCEPT ![p] = Idle]
              ELSE IF got.value.shape # "dict"
              THEN /\ out' = Sent(req[p], answer, "AttributeError",
                                  OnEvaluateException("AttributeError"))
                   /\ req' = [req EXCEPT ![p] = Idle]
              ELSE \/ \E raw \in llm :
                         /\ req' = [req EXCEPT ![p] = Evaluated(req[p], answer, got.value, raw)]
                         /\ out' = Quiet
                   \/ /\ out' = Sent(req[p], answer, "APIError", OnEvaluateException("APIError"))
                      /\ req' = [req EXCEPT ![p] = Idle]
    /\ UNCHANGED <<store, writer, pending, clock, nreq, succ, llm, api, budget>>

\* lines 145-148: the insert opens the write transaction; the wall clock has
\* not gone back since the last row was stamped
EvalInsert(p) ==
    /\ req[p].pc = "insert"
    /\ writer = 0
    /\ writer' = p
    /\ \E now \in clock..MaxClock :
          /\ clock' = now
          /\ pending' = <<NewRow(req[p], now)>>
    /\ req' = [req EXCEPT ![p].pc = "commit"]
    /\ out' = Quiet
    /\ UNCHANGED <<store, nreq, succ, llm, api, budget>>

\* the commit as it would be with one row per (user, article): the row
\* replaces the one already there
EvalCommitUpsert(p) ==
    /\ req[p].pc = "commit"
    /\ writer = p
    /\ LET row == pending[1]
           dup == {i \in 1..Len(store) :
                      store[i].user = row.user /\ store[i].article_id = row.article_id}
       IN  store' = IF dup = {} THEN store \o pending
                    ELSE [i \in 1..Len(store) |->
                             IF i \in dup THEN [row EXCEPT !.id = store[i].id] ELSE store[i]]
    /\ pending' = <<>>
    /\ writer' = 0
    /\ succ' = [succ EXCEPT ![req[p].user] = @ + 1]
    /\ out' = Sent(req[p], req[p].answer, "", SuccessPayload(req[p]))
    /\ req' = [req EXCEPT ![p] = Idle]
    /\ UNCHANGED <<clock, nreq, llm, api, budget>>

\* lines 149-152
EvalCommit(p) ==
    /\ req[p].pc = "commit"
    /\ writer = p
    /\ store' = store \o pending
    /\ pending' = <<>>
    /\ writer' = 0
    /\ succ' = [succ EXCEPT ![req[p].user] = @ + 1]
    /\ out' = Sent(req[p], req[p].answer, "", SuccessPayload(req[p]))
    /\ req' = [req EXCEPT ![p] = Idle]
    /\ UNCHANGED <<clock, nreq, llm, api, budget>>

\* what the insert or the commit raises
StepException(pc) ==
    IF pc = "insert" THEN "OperationalError:locked" ELSE "OperationalError:commit"

\* the exception path as it would be if the insert were committed on its own
\* (an autocommit connection): the row stays
EvalRaiseKeepsRow(p) ==
    /\ req[p].pc \in {"insert", "commit"}
    /\ out' = Sent(req[p], req[p].answer, StepException(req[p].pc),
                   OnEvaluateException(StepException(req[p].pc)))
    /\ req' = [req EXCEPT ![p] = Idle]
    /\ IF writer = p
       THEN writer' = 0 /\ pending' = <<>> /\ store' = store \o pending
       ELSE UNCHANGED <<writer, pending, store>>
    /\ UNCHANGED <<clock, nreq, succ, llm, api, budget>>

\* lines 154-156 for the insert (the database is locked by another request's
\* transaction, or fails) and the commit: the connection goes with the frame
\* and SQLite rolls back what it had not committed
EvalRaise(p) ==
    /\ req[p].pc \in {"insert", "commit"}
    /\ out' = Sent(req[p], req[p].answer, StepException(req[p].pc),
                   OnEvaluateException(StepException(req[p].pc)))
    /\ req' = [req EXCEPT ![p] = Idle]
    /\ IF writer = p
       THEN writer' = 0 /\ pending' = <<>>
       ELSE UNCHANGED <<writer, pending>>
    /\ UNCHANGED <<store, clock, nreq, succ, llm, api, budget>>

\* GET /history/{user}: lines 160-175, a single read of the table
History(user) ==
    /\ \/ \E f \in SelectDescending(Visible, user) :
             out' = [Quiet EXCEPT !.handler = "history", !.user = user,
                                  !.read = [i \in DOMAIN f |-> Visible[f[i]].id],
                                  !.result = HistoryPayload(user, [i \in DOMAIN f |-> Visible[f[i]]])]
       \/ out' = [Quiet EXCEPT !.handler = "history", !.user = user,
                               !.exc = "OperationalError:select",
                               !.result = OnHistoryException("OperationalError:select")]
    /\ UNCHANGED <<store, writer, pending, clock, req, nreq, succ, llm, api, budget>>

Init ==
    /\ store = <<>>
    /\ writer = 0
    /\ pending = <<>>
    /\ clock = 0
    /\ req = [p \in Procs |-> Idle]
    /\ out = Quiet
    /\ nreq = 0
    /\ succ = [u \in Users |-> 0]
    /\ llm = Replies
    /\ api = Answers
    /\ budget = MaxEvaluations

Next ==
    \/ \E p \in Procs, user \in Users, article_id \in ArticleIds : EvalBegin(p, user, article_id)
    \/ \E p \in Procs : EvalCall(p)
    \/ \E p \in Procs : EvalInsert(p)
    \/ \E p \in Procs : EvalCommit(p)
    \/ \E p \in Procs : EvalRaise(p)
    \/ \E user \in Users : History(user)

Spec == Init /\ [][Next]_vars

(***************************************************************************)
(* One evaluate request that has read an empty history and is about to     *)
(* fetch its article, for every text the chat-completion API can answer    *)
(* with: the specification the claims about the review text are checked    *)
(* under.                                                                  *)
(***************************************************************************)
InitText ==
    /\ store = <<>>
    /\ writer = 0
    /\ pending = <<>>
    /\ clock = MaxClock
    /\ req = [p \in Procs |->
                 IF p = 1
                 THEN [Idle EXCEPT !.pc = "fetch", !.rid = 1, !.user = "u1", !.article_id = "a1"]
                 ELSE Idle]
    /\ out = Quiet
    /\ nreq = 1
    /\ succ = [u \in Users |-> 0]
    /\ \E raw \in Texts(MaxTextLen) : llm = {raw}
    /\ api = {"dict"}
    /\ budget = 0

NextText ==
    \/ \E p \in Procs : EvalCall(p)
    \/ \E p \in Procs : EvalInsert(p)
    \/ \E p \in Procs : EvalCommit(p)
    \/ \E p \in Procs : EvalRaise(p)

SpecText == InitText /\ [][NextText]_vars

(***************************************************************************)
(* The service after two evaluate requests of user u1 have succeeded, with *)
(* one more to come: the specification the claim about the history an      *)
(* evaluate request reads is checked under.                                *)
(***************************************************************************)
\* the row request rid of user left at time now, the reply having been raw
StoredRow(rid, user, raw, now) ==
    [id |-> rid, user |-> user, article_id |-> "a1", title |-> "a1",
     score |-> SearchScore(Clean(raw)), review |-> Clean(raw),
     created_at |-> now, by |-> rid]

InitSeeded ==
    /\ \E raw1, raw2 \in Replies : \E now \in 0..MaxClock :
          /\ store = <<StoredRow(1, "u1", raw1, 0), StoredRow(2, "u1", raw2, now)>>
          /\ clock = now
    /\ writer = 0
    /\ pending = <<>>
    /\ req = [p \in Procs |-> Idle]
    /\ out = Quiet
    /\ nreq = 2
    /\ succ = [u \in Users |-> IF u = "u1" THEN 2 ELSE 0]
    /\ llm = Replies
    /\ api = Answers
    /\ budget = 1

SpecSeeded == InitSeeded /\ [][Next]_vars

(***************************************************************************)
(* Properties.                                                             *)
(***************************************************************************)
RowsBy(rid) == {i \in 1..Len(store) : store[i].by = rid}

NothingPendingBy(rid) == \A i \in 1..Len(pending) : pending[i].by # rid

InFlight == {p \in Procs : req[p].pc # "idle"}

Succeeded == out.handler = "evaluate" /\ out.result.kind = "success"

HistoryReturned == out.handler = "history" /\ out.result.kind = "history"

\* C1: when the content API answers an evaluate request with a status other
\* than 200, evaluate returns an error payload and the store holds no row of
\* that request, committed or pending, whatever rows it held before.
C1_Non200ErrorNoInsert ==
    (out.handler = "evaluate" /\ out.answer = "non200") =>
        /\ out.result.kind = "error"
        /\ RowsBy(out.rid) = {}
        /\ NothingPendingBy(out.rid)

\* a non-200 answer to a request made when the store already held a row
C1_Witness ==
    /\ out.handler = "evaluate"
    /\ out.answer = "non200"
    /\ out.result.kind = "error"
    /\ Len(store) > 0

\* C2: an evaluate request either returns the success payload, and then the
\* store holds exactly one row of it, carrying the payload's user, score and
\* review, or returns an error payload, and then the store holds no row of it;
\* a request that has not returned has no committed row.
C2_AllOrNothing ==
    /\ out.handler = "evaluate" =>
          \/ /\ out.result.kind = "success"
             /\ Cardinality(RowsBy(out.rid)) = 1
             /\ \A i \in RowsBy(out.rid) :
                   /\ store[i].user = out.result.user
                   /\ store[i].score = out.result.score
                   /\ store[i].review = out.result.review
          \/ /\ out.result.kind = "error"
             /\ RowsBy(out.rid) = {}
             /\ NothingPendingBy(out.rid)
    /\ \A p \in InFlight : RowsBy(req[p].rid) = {}

\* the commit of an inserted row fails, after another request's row went in
C2_Witness ==
    /\ out.handler = "evaluate"
    /\ out.exc = "OperationalError:commit"
    /\ out.result.kind = "error"
    /\ Len(store) > 0

\* C3: getUserHistory(user) returns as many records as evaluate calls for that
\* user have succeeded, and the stored rows all have different identifiers.
C3_HistoryCountsSuccesses ==
    /\ HistoryReturned => Len(out.result.history) = succ[out.user]
    /\ \A i, j \in 1..Len(store) : i # j => store[i].id # store[j].id

\* two successful evaluate calls with the same arguments and the same reply,
\* then the user's history
C3_Witness ==
    /\ HistoryReturned
    /\ succ[out.user] = 2
    /\ Len(out.result.history) = 2
    /\ Len(store) = 2
    /\ store[1].user = store[2].user
    /\ store[1].article_id = store[2].article_id
    /\ store[1].review = store[2].review
    /\ store[1].id # store[2].id

\* C4: getUserHistory(user) lists the user's records newest first: of two
\* records, the one appended by the later evaluate call comes first, also
\* when both have the same created_at.
C4_NewestFirst ==
    HistoryReturned =>
        \A i, j \in DOMAIN out.read : i < j => out.read[i] > out.read[j]

\* where the pattern <1 to 3 digits><suffix> occurs in a text
Occurrences(s) ==
    {o \in (1..Len(s)) \X (1..3) :
        /\ o[1] + o[2] <= Len(s)
        /\ \A j \in o[1]..(o[1] + o[2] - 1) : s[j] \in Digits
        /\ s[o[1] + o[2]] = ScoreSuffix}

\* the number the first occurrence spells, None if there is none
FirstOccurrence(s) ==
    IF Occurrences(s) = {} THEN None
    ELSE LET o == CHOOSE x \in Occurrences(s) : \A y \in Occurrences(s) : x[1] <= y[1]
         IN  ToInt(SubSeq(s, o[1], o[1] + o[2] - 1))

\* C5: the score evaluate returns and stores is the number spelt by the first
\* <1 to 3 digits><suffix> in the reply of the chat-completion API, None if
\* the reply has none, in which case the review is still returned and stored;
\* the score is anywhere in 0..999.
C5_ScoreIsFirstOccurrence ==
    Succeeded =>
        /\ out.result.score = FirstOccurrence(out.raw)
        /\ out.result.score = None \/ out.result.score \in 0..999
        /\ \A i \in RowsBy(out.rid) :
              store[i].score = FirstOccurrence(out.raw) /\ store[i].review = out.result.review
        /\ RowsBy(out.rid) # {}

\* a reply with two occurrences spelling different numbers
C5_Witness ==
    /\ Succeeded
    /\ \E x, y \in Occurrences(out.raw) :
          /\ x[1] < y[1]
          /\ ToInt(SubSeq(out.raw, x[1], x[1] + x[2] - 1))
                # ToInt(SubSeq(out.raw, y[1], y[1] + y[2] - 1))
    /\ out.result.score = FirstOccurrence(out.raw)

C7_ReviewNormalized ==
    Succeeded =>
        LET t == out.result.review
        IN  /\ \A i \in 1..Len(t) : t[i] # "\n"
            /\ \A i \in 1..(Len(t) - 1) : ~(t[i] = " " /\ t[i + 1] = " ")
            /\ Len(t) > 0 => t[1] \notin Whitespace /\ t[Len(t)] \notin Whitespace

\* C8 as claimed: a non-200 answer, a network failure and a malformed 200 body
\* all end in the article-not-found error.
C8_EveryFetchFailureNotFound ==
    (out.handler = "evaluate" /\ out.answer \in {"non200", "ConnectionError", "invalid"}) =>
        out.result = ErrorPayload(ErrNotFound)

\* C8 as amended: a non-200 answer (and a 200 answer whose body is an empty
\* JSON value) ends in the article-not-found error; a network failure, a 200
\* body that is not JSON and a 200 body that is not a JSON object raise, and
\* end in the generic unexpected-failure error.
C8_FetchFailureClassification ==
    out.handler = "evaluate" =>
        /\ out.answer \in {"non200", "empty"} =>
              out.exc = "" /\ out.result = ErrorPayload(ErrNotFound)
        /\ out.answer \in {"ConnectionError", "invalid", "list"} =>
              out.exc # "" /\ out.result = ErrorPayload(ErrUnexpected)

\* a network failure answered with the generic error
C8_Witness ==
    /\ out.handler = "evaluate"
    /\ out.answer = "ConnectionError"
    /\ out.result = ErrorPayload(ErrUnexpected)

\* C9: whatever a step of evaluate or of getUserHistory raises, the handler
\* returns an error payload with its own fixed message, which is not the
\* exception's text.
C9_GenericErrorPayload ==
    out.exc # "" =>
        /\ out.result.kind = "error"
        /\ out.result.error = (IF out.handler = "evaluate" THEN ErrUnexpected ELSE ErrHistory)
        /\ out.result.error # out.exc

\* the chat-completion call of an evaluate request raises
C9_Witness ==
    /\ out.handler = "evaluate"
    /\ out.exc = "APIError"
    /\ out.result.kind = "error"

\* C10: with requests interleaved, a request reads only committed rows, none
\* of them the row of a request still in flight; a request that returns the
\* success payload has exactly one row; and the store holds one row per
\* success, each with its own identifier and its own request.
C10_ConcurrentAppendsIsolated ==
    /\ \A p \in InFlight : \A i \in DOMAIN req[p].read :
          /\ req[p].read[i] \in 1..Len(store)
          /\ \A q \in InFlight : store[req[p].read[i]].by # req[q].rid
    /\ \A i \in DOMAIN out.read : out.read[i] \in 1..Len(store)
    /\ Succeeded => Cardinality(RowsBy(out.rid)) = 1
    /\ \A u \in Users : Cardinality(RowsOf(store, u)) = succ[u]
    /\ \A i \in 1..Len(store) : store[i].id = i
    /\ \A i, j \in 1..Len(store) : i # j => store[i].by # store[j].by

\* two requests of one user overlapped: the second to commit had read an
\* empty history, and both rows are there
C10_Witness ==
    /\ Succeeded
    /\ Len(store) = 2
    /\ store[1].user = store[2].user
    /\ store[2].by = out.rid
    /\ out.read = <<>>

====
